---- MODULE Spec2Model ----
(***************************************************************************)
(* YerushalmiYomiCalculator.getDafYomiYerushalmi: the Daf Yomi Yerushalmi  *)
(* page of a date.  Dates (Temporal.PlainDate) are absolute day numbers    *)
(* (day 1 = 1 January of year 1, proleptic Gregorian), so that adding      *)
(* days, comparing and taking differences are integer operations.  The     *)
(* Hebrew calendar (JewishCalendar) is the fixed arithmetical calendar.    *)
(***************************************************************************)
EXTENDS Integers, Sequences, FiniteSets, TLC

(***************************************************************************)
(* Bounds of the model, in days relative to the start of the first cycle.  *)
(***************************************************************************)
\* requested dates start this many days before DAF_YOMI_START_DAY
DaysBefore == 140
\* ... and run without gap to this many days after it (two cycles and more)
NearDays == 3200
\* a second window of requested dates, around the end of the 24th cycle
LateFrom == 37490
LateDays == 20
\* a later call asks for a date at most this many days after the previous one
MaxGap == 3
\* the intervals handed directly to getNumOfSpecialDays
CountFrom == 150
CountDays == 100
MaxSpan == 450

(***************************************************************************)
(* Temporal.PlainDate                                                      *)
(***************************************************************************)
isGregorianLeapYear(year) ==
  (year % 4 = 0 /\ year % 100 # 0) \/ year % 400 = 0

daysInGregorianMonth(year, month) ==
  IF month = 2 THEN (IF isGregorianLeapYear(year) THEN 29 ELSE 28)
  ELSE IF month \in {4, 6, 9, 11} THEN 30 ELSE 31

RECURSIVE daysBeforeGregorianMonth(_, _)
daysBeforeGregorianMonth(year, month) ==
  IF month = 1 THEN 0
  ELSE daysBeforeGregorianMonth(year, month - 1) + daysInGregorianMonth(year, month - 1)

\* Temporal.PlainDate.from({year, month, day}) as an absolute day number
PlainDateFrom(year, month, day) ==
  day + daysBeforeGregorianMonth(year, month) + 365 * (year - 1)
      + ((year - 1) \div 4) - ((year - 1) \div 100) + ((year - 1) \div 400)

\* Temporal.PlainDate.compare
compare(one, two) == IF one < two THEN -1 ELSE IF one > two THEN 1 ELSE 0

(***************************************************************************)
(* Constants of YerushalmiYomiCalculator                                   *)
(***************************************************************************)
DAF_YOMI_START_DAY == PlainDateFrom(1980, 2, 2)

WHOLE_SHAS_DAFS == 1554

BLATT_PER_MASECHTA ==
  << 68, 37, 34, 44, 31, 59, 26, 33, 28, 20, 13, 92, 65, 71, 22,
     22, 42, 26, 26, 33, 34, 22, 19, 85, 72, 47, 40, 47, 54, 48, 44, 37, 34, 44, 9, 57, 37, 19, 13 >>

(***************************************************************************)
(* JewishCalendar: the Hebrew calendar.  Months are numbered from Nissan   *)
(* (1); Av is 5, Tishrei, the first month of the year, is 7, Adar II of a  *)
(* leap year is 13.                                                        *)
(***************************************************************************)
JEWISH_EPOCH == -1373429

TISHREI == 7

AV == 5

isJewishLeapYear(year) == ((7 * year) + 1) % 19 < 7

\* the months from the molad of creation to the molad of Tishrei of year
getMonthsElapsed(year) ==
  235 * ((year - 1) \div 19) + 12 * ((year - 1) % 19) + ((7 * ((year - 1) % 19) + 1) \div 19)

\* the molad of Tishrei after monthsElapsed months: its hour (counted from the
\* calendar's epoch), its day, and its parts (chalakim, 1080 to the hour) of the day
getMoladHours(monthsElapsed) ==
  5 + 12 * monthsElapsed + 793 * (monthsElapsed \div 1080)
    + ((204 + 793 * (monthsElapsed % 1080)) \div 1080)

getMoladDay(monthsElapsed) == 1 + 29 * monthsElapsed + (getMoladHours(monthsElapsed) \div 24)

getMoladParts(monthsElapsed) ==
  1080 * (getMoladHours(monthsElapsed) % 24) + ((204 + 793 * (monthsElapsed % 1080)) % 1080)

\* the postponements of Rosh Hashana
addDechiyos(year, moladDay, moladParts) ==
  LET roshHashanaDay ==
        IF \/ moladParts >= 19440
           \/ (moladDay % 7 = 2 /\ moladParts >= 9924 /\ ~isJewishLeapYear(year))
           \/ (moladDay % 7 = 1 /\ moladParts >= 16789 /\ isJewishLeapYear(year - 1))
        THEN moladDay + 1 ELSE moladDay
  IN  IF roshHashanaDay % 7 \in {0, 3, 5} THEN roshHashanaDay + 1 ELSE roshHashanaDay

\* days from the calendar's epoch to 1 Tishrei of year
getJewishCalendarElapsedDays(year) ==
  addDechiyos(year, getMoladDay(getMonthsElapsed(year)), getMoladParts(getMonthsElapsed(year)))

getDaysInJewishYear(year) ==
  getJewishCalendarElapsedDays(year + 1) - getJewishCalendarElapsedDays(year)

\* Cheshvan (8) has 30 days in a year of 355 or 385 days, Kislev (9) has 29 in
\* a year of 353 or 383; Adar (12) has 30 days in a leap year, followed by Adar II
daysInMonthOfYear(month, daysInYear, leapYear) ==
  IF \/ month \in {2, 4, 6, 10, 13}
     \/ (month = 8 /\ daysInYear % 10 # 5)
     \/ (month = 9 /\ daysInYear % 10 = 3)
     \/ (month = 12 /\ ~leapYear)
  THEN 29 ELSE 30

getDaysInJewishMonth(month, year) ==
  daysInMonthOfYear(month, getDaysInJewishYear(year), isJewishLeapYear(year))

getLastMonthOfJewishYear(year) == IF isJewishLeapYear(year) THEN 13 ELSE 12

\* the sum of the lengths of the months from .. to - 1 of year
RECURSIVE daysInMonths(_, _, _)
daysInMonths(year, from, to) ==
  IF from >= to THEN 0
  ELSE getDaysInJewishMonth(from, year) + daysInMonths(year, from + 1, to)

\* the months of a year run Tishrei (7) .. Adar, then Nissan (1) .. Elul (6)
getDaysSinceStartOfJewishYear(year, month, dayOfMonth) ==
  dayOfMonth
    + daysInMonths(year, TISHREI,
                   IF month < TISHREI THEN getLastMonthOfJewishYear(year) + 1 ELSE month)
    + daysInMonths(year, 1, IF month < TISHREI THEN month ELSE 1)

\* new JewishCalendar(year, month, day).getDate()
jewishDateToAbsDate(year, month, dayOfMonth) ==
  getDaysSinceStartOfJewishYear(year, month, dayOfMonth)
    + getJewishCalendarElapsedDays(year) + JEWISH_EPOCH

RECURSIVE yearOfAbsDate(_, _)
yearOfAbsDate(absDate, year) ==
  IF absDate >= jewishDateToAbsDate(year + 1, TISHREI, 1)
  THEN yearOfAbsDate(absDate, year + 1)
  ELSE year

\* new JewishCalendar(date).getJewishYear()
getJewishYear(absDate) == yearOfAbsDate(absDate, (absDate - JEWISH_EPOCH) \div 366)

RECURSIVE monthOfAbsDate(_, _, _)
monthOfAbsDate(absDate, year, month) ==
  IF absDate >= jewishDateToAbsDate(year, month, 1) + getDaysInJewishMonth(month, year)
  THEN monthOfAbsDate(absDate, year, month + 1)
  ELSE month

jewishDateInMonth(absDate, year, month, firstOfMonth) ==
  [year |-> year, month |-> month, day |-> absDate - firstOfMonth + 1]

jewishDateFromMonth(absDate, year, month) ==
  jewishDateInMonth(absDate, year, month, jewishDateToAbsDate(year, month, 1))

jewishDateInYear(absDate, year, firstOfNissan) ==
  jewishDateFromMonth(absDate, year,
     monthOfAbsDate(absDate, year, IF absDate < firstOfNissan THEN TISHREI ELSE 1))

jewishDateFromYear(absDate, year) ==
  jewishDateInYear(absDate, year, jewishDateToAbsDate(year, 1, 1))

\* new JewishCalendar(date): the Hebrew year, month and day of a date
absDateToJewishDate(absDate) == jewishDateFromYear(absDate, getJewishYear(absDate))

\* JewishCalendar.getYomTovIndex, for the two days that have no daf
getYomTovIndex(jewishCalendar) ==
  IF jewishCalendar.month = TISHREI /\ jewishCalendar.day = 10 THEN "YOM_KIPPUR"
  ELSE IF jewishCalendar.month = AV /\ jewishCalendar.day = 9 THEN "TISHA_BEAV"
  ELSE "OTHER"

(***************************************************************************)
(* rangeDates and getNumOfSpecialDays                                      *)
(***************************************************************************)
rangeDates_exclusive(start, middle, end, inclusive) ==
  compare(middle, start) = 1 /\ compare(end, middle) = 1

rangeDates_noUpperLimit(start, middle, end, inclusive) ==
  compare(middle, start) \in {1, 0}

rangeDates(start, middle, end, inclusive) ==
  LET acceptedValues == IF inclusive THEN {1, 0} ELSE {1}
  IN  compare(middle, start) \in acceptedValues /\ compare(end, middle) \in acceptedValues

\* one pass of the loop over the Hebrew years: the two tests of year i
specialDaysOfYear(start, yomKippur, tishaBeav, end) ==
  (IF rangeDates(start, yomKippur, end, TRUE) THEN 1 ELSE 0)
    + (IF rangeDates(start, tishaBeav, end, TRUE) THEN 1 ELSE 0)

\* the loop over the Hebrew years i .. jewishEndYear
RECURSIVE specialDaysFromYear(_, _, _, _, _)
specialDaysFromYear(i, jewishEndYear, start, end, specialDays) ==
  IF i <= jewishEndYear
  THEN specialDaysFromYear(i + 1, jewishEndYear, start, end,
         specialDays + specialDaysOfYear(start, jewishDateToAbsDate(i, 7, 10),
                                         jewishDateToAbsDate(i, 5, 9), end))
  ELSE specialDays

getNumOfSpecialDays(start, end) ==
  specialDaysFromYear(getJewishYear(start), getJewishYear(end), start, end, 0)

(***************************************************************************)
(* getDafYomiYerushalmi                                                    *)
(***************************************************************************)
NoDaf == [kind |-> "none", masechta |-> 0, daf |-> 0]
Null == [kind |-> "null", masechta |-> 0, daf |-> 0]
IllegalArgumentException == [kind |-> "IllegalArgumentException", masechta |-> 0, daf |-> 0]
Undefined == [kind |-> "undefined", masechta |-> 0, daf |-> 0]
Daf(masechta, daf) == [kind |-> "Daf", masechta |-> masechta, daf |-> daf]

\* the two tests made before the cycle is searched
entryCheck_rangeFirst(yomTovIndex, requested) ==
  IF compare(requested, DAF_YOMI_START_DAY) = -1 THEN IllegalArgumentException
  ELSE IF yomTovIndex = "YOM_KIPPUR" \/ yomTovIndex = "TISHA_BEAV" THEN Null
  ELSE NoDaf

entryCheck_noThrow(yomTovIndex, requested) ==
  IF yomTovIndex = "YOM_KIPPUR" \/ yomTovIndex = "TISHA_BEAV" THEN Null
  ELSE NoDaf

entryCheck(yomTovIndex, requested) ==
  IF yomTovIndex = "YOM_KIPPUR" \/ yomTovIndex = "TISHA_BEAV" THEN Null
  ELSE IF compare(requested, DAF_YOMI_START_DAY) = -1 THEN IllegalArgumentException
  ELSE NoDaf

\* nextCycle.add({ days: WHOLE_SHAS_DAFS })
addWholeShas_resultDropped(nextCycle) == nextCycle

addWholeShas(nextCycle) == nextCycle + WHOLE_SHAS_DAFS

\* the loop that finds the daf: i is the (1-based) position in BLATT_PER_MASECHTA
RECURSIVE findDaf_strict(_, _, _)
findDaf_strict(total, i, masechta) ==
  IF i <= Len(BLATT_PER_MASECHTA)
  THEN IF total < BLATT_PER_MASECHTA[i]
       THEN Daf(masechta, total + 1)
       ELSE findDaf_strict(total - BLATT_PER_MASECHTA[i], i + 1, masechta + 1)
  ELSE Undefined

RECURSIVE findDaf(_, _, _)
findDaf(total, i, masechta) ==
  IF i <= Len(BLATT_PER_MASECHTA)
  THEN IF total <= BLATT_PER_MASECHTA[i]
       THEN Daf(masechta, total + 1)
       ELSE findDaf(total - BLATT_PER_MASECHTA[i], i + 1, masechta + 1)
  ELSE Undefined

(***************************************************************************)
(* State: one call of getDafYomiYerushalmi at a time, and what the         *)
(* previous call returned.                                                 *)
(***************************************************************************)
VARIABLES
  pc,          \* position in the call
  requested,   \* jewishCalendar.getDate()
  nextCycle, prevCycle,
  dafNo,       \* requested.since(prevCycle), in days
  total,       \* dafNo - specialDays, as handed to the loop that finds the daf
               \* (the loop's running remainder is the parameter of findDaf)
  start, end,  \* the arguments of the latest getNumOfSpecialDays
  specialDays, \* ... and what it returned
  dafYomi,     \* the outcome of the call
  previous     \* the finished call before this one

vars == << pc, requested, nextCycle, prevCycle, dafNo, total, start, end,
           specialDays, dafYomi, previous >>

MinDate == DAF_YOMI_START_DAY - DaysBefore

RequestedDates ==
  (MinDate .. DAF_YOMI_START_DAY + NearDays)
    \cup (DAF_YOMI_START_DAY + LateFrom .. DAF_YOMI_START_DAY + LateFrom + LateDays)

NoCall == [requested |-> 0, prevCycle |-> 0, total |-> 0, kind |-> "none"]

\* no call yet
Init ==
  /\ pc = "idle"
  /\ requested = 0
  /\ nextCycle = DAF_YOMI_START_DAY
  /\ prevCycle = DAF_YOMI_START_DAY
  /\ dafNo = 0
  /\ total = 0
  /\ start = 0
  /\ end = 0
  /\ specialDays = 0
  /\ dafYomi = NoDaf
  /\ previous = NoCall

\* lines 47-51: getDafYomiYerushalmi is called, the first time for any date,
\* then for a date some days after the date of the call before
Call ==
  /\ pc \in {"idle", "done"}
  /\ \E date \in RequestedDates :
       /\ pc = "done" => (requested < date /\ date <= requested + MaxGap)
       /\ requested' = date
  /\ previous' = IF pc = "idle" THEN NoCall
                 ELSE [requested |-> requested, prevCycle |-> prevCycle,
                       total |-> total, kind |-> dafYomi.kind]
  /\ pc' = "entry"
  /\ nextCycle' = DAF_YOMI_START_DAY
  /\ prevCycle' = DAF_YOMI_START_DAY
  /\ dafNo' = 0
  /\ total' = 0
  /\ start' = 0
  /\ end' = 0
  /\ specialDays' = 0
  /\ dafYomi' = NoDaf

\* lines 53-60: no daf on Yom Kippur or Tisha B'Av, no cycle before the first
CheckDate ==
  /\ pc = "entry"
  /\ LET outcome == entryCheck(getYomTovIndex(absDateToJewishDate(requested)), requested)
     IN  /\ dafYomi' = outcome
         /\ pc' = IF outcome.kind = "none" THEN "cycle" ELSE "done"
  /\ UNCHANGED << requested, nextCycle, prevCycle, dafNo, total, start, end,
                  specialDays, previous >>

\* lines 66-73: one iteration of the search for the cycle of requested
AdvanceCycle ==
  /\ pc = "cycle"
  /\ compare(nextCycle, requested) = -1
  /\ LET wholeShas == addWholeShas(nextCycle)
         special == getNumOfSpecialDays(nextCycle, wholeShas)
     IN  /\ prevCycle' = nextCycle
         /\ nextCycle' = wholeShas + special
         /\ start' = nextCycle
         /\ end' = wholeShas
         /\ specialDays' = special
  /\ UNCHANGED << pc, requested, dafNo, total, dafYomi, previous >>

\* lines 75-80: the search is over; the number of the daf within the cycle
CountDafs ==
  /\ pc = "cycle"
  /\ compare(nextCycle, requested) # -1
  /\ LET special == getNumOfSpecialDays(prevCycle, requested)
     IN  /\ dafNo' = requested - prevCycle
         /\ start' = prevCycle
         /\ end' = requested
         /\ specialDays' = special
         /\ total' = (requested - prevCycle) - special
  /\ pc' = "daf"
  /\ UNCHANGED << requested, nextCycle, prevCycle, dafYomi, previous >>

\* lines 82-92: the masechta and the daf
FindDaf ==
  /\ pc = "daf"
  /\ dafYomi' = findDaf(total, 1, 0)
  /\ pc' = "done"
  /\ UNCHANGED << requested, nextCycle, prevCycle, dafNo, total, start, end,
                  specialDays, previous >>

Next == Call \/ CheckDate \/ AdvanceCycle \/ CountDafs \/ FindDaf

Spec == Init /\ [][Next]_vars

(***************************************************************************)
(* getNumOfSpecialDays on its own, over intervals start .. end             *)
(***************************************************************************)
InitCount ==
  /\ pc = "count"
  /\ start \in DAF_YOMI_START_DAY + CountFrom .. DAF_YOMI_START_DAY + CountFrom + CountDays
  /\ end \in start .. start + MaxSpan
  /\ specialDays = 0
  /\ requested = 0
  /\ nextCycle = DAF_YOMI_START_DAY
  /\ prevCycle = DAF_YOMI_START_DAY
  /\ dafNo = 0
  /\ total = 0
  /\ dafYomi = NoDaf
  /\ previous = NoCall

CountSpecialDays ==
  /\ pc = "count"
  /\ specialDays' = getNumOfSpecialDays(start, end)
  /\ pc' = "counted"
  /\ UNCHANGED << requested, nextCycle, prevCycle, dafNo, total, start, end,
                  dafYomi, previous >>

SpecCount == InitCount /\ [][CountSpecialDays]_vars

(***************************************************************************)
(* The days without a daf                                                  *)
(***************************************************************************)
\* day by day: what getYomTovIndex says of a date
NoDafDay(date) ==
  getYomTovIndex(absDateToJewishDate(date)) \in {"YOM_KIPPUR", "TISHA_BEAV"}

\* the days without a daf among the dates of the intervals of SpecCount
NoDafDaysCounted ==
  {date \in DAF_YOMI_START_DAY + CountFrom
              .. DAF_YOMI_START_DAY + CountFrom + CountDays + MaxSpan : NoDafDay(date)}

NoDafDaysWithin(first, last) ==
  Cardinality({date \in NoDafDaysCounted : first <= date /\ date <= last})

\* year by year: 10 Tishrei and 9 Av of every Hebrew year a call can touch
NoDafDaysOfYears ==
  UNION {{jewishDateToAbsDate(year, TISHREI, 10), jewishDateToAbsDate(year, AV, 9)} :
           year \in getJewishYear(MinDate) - 1
                      .. getJewishYear(DAF_YOMI_START_DAY + LateFrom + LateDays) + 6}

\* the days with a daf from first up to, not including, next
DafDays(first, next) ==
  (next - first) - Cardinality({date \in NoDafDaysOfYears : first <= date /\ date < next})

(***************************************************************************)
(* C1, as stated: every date before DAF_YOMI_START_DAY ends in the         *)
(* IllegalArgumentException, Yom Kippur and Tisha B'Av included.           *)
(***************************************************************************)
C1_BeforeStartThrows ==
  (pc = "done" /\ requested < DAF_YOMI_START_DAY)
    => dafYomi = IllegalArgumentException

(***************************************************************************)
(* C1, amended: a date before DAF_YOMI_START_DAY ends in the               *)
(* IllegalArgumentException unless it is Yom Kippur or Tisha B'Av, for     *)
(* which the call returns null.                                            *)
(***************************************************************************)
C1_BeforeStartThrowsUnlessNoDafDay ==
  (pc = "done" /\ requested < DAF_YOMI_START_DAY)
    => dafYomi = IF NoDafDay(requested) THEN Null ELSE IllegalArgumentException

C1_Witness ==
  /\ pc = "done"
  /\ requested < DAF_YOMI_START_DAY
  /\ ~NoDafDay(requested)
  /\ dafYomi = IllegalArgumentException

(***************************************************************************)
(* C2: on Yom Kippur and on Tisha B'Av of every Hebrew year from the year  *)
(* of DAF_YOMI_START_DAY on, the call returns null: no daf, no exception.  *)
(***************************************************************************)
C2_NoDafDayReturnsNull ==
  (/\ pc = "done"
   /\ NoDafDay(requested)
   /\ getJewishYear(requested) >= getJewishYear(DAF_YOMI_START_DAY))
    => dafYomi = Null

C2_Witness ==
  /\ pc = "done"
  /\ NoDafDay(requested)
  /\ requested > DAF_YOMI_START_DAY + WHOLE_SHAS_DAFS
  /\ dafYomi = Null

(***************************************************************************)
(* C3, as stated: a returned daf lies in one of the 39 masechtos and its   *)
(* number is between 1 and the number of dafs of that masechta.            *)
(***************************************************************************)
C3_DafWithinMasechta ==
  dafYomi.kind = "Daf"
    => /\ 0 <= dafYomi.masechta
       /\ dafYomi.masechta < Len(BLATT_PER_MASECHTA)
       /\ 1 <= dafYomi.daf
       /\ dafYomi.daf <= BLATT_PER_MASECHTA[dafYomi.masechta + 1]

(***************************************************************************)
(* C4, as stated: on the first day of every cycle (a value of nextCycle,   *)
(* DAF_YOMI_START_DAY included) that has a daf, the call returns the first *)
(* daf of the first masechta.                                              *)
(***************************************************************************)
C4_CycleStartIsFirstDaf ==
  (/\ pc = "done"
   /\ requested >= DAF_YOMI_START_DAY
   /\ requested = nextCycle
   /\ ~NoDafDay(requested))
    => dafYomi = Daf(0, 1)

(***************************************************************************)
(* C5, as stated: from the start of a cycle up to the start of the next    *)
(* there are exactly WHOLE_SHAS_DAFS days that have a daf.                 *)
(***************************************************************************)
C5_CycleHasWholeShas ==
  (pc \in {"cycle", "daf", "done"} /\ prevCycle < nextCycle)
    => DafDays(prevCycle, nextCycle) = WHOLE_SHAS_DAFS

(***************************************************************************)
(* C6: two calls for dates d1 < d2 that have a daf, in the same cycle and  *)
(* with no Yom Kippur or Tisha B'Av between them: the number of the daf in *)
(* the cycle (total) of d1 is less than that of d2.                        *)
(***************************************************************************)
C6_TotalIncreases ==
  (/\ pc = "done"
   /\ dafYomi.kind = "Daf"
   /\ previous.kind = "Daf"
   /\ previous.prevCycle = prevCycle
   /\ \A date \in previous.requested + 1 .. requested - 1 : ~NoDafDay(date))
    => previous.total < total

C6_Witness ==
  /\ pc = "done"
  /\ dafYomi.kind = "Daf"
  /\ previous.kind = "Daf"
  /\ previous.prevCycle = prevCycle
  /\ prevCycle > DAF_YOMI_START_DAY
  /\ requested = previous.requested + MaxGap
  /\ \A date \in previous.requested + 1 .. requested - 1 : ~NoDafDay(date)
  /\ specialDays > 0

(***************************************************************************)
(* C7, as stated: the number handed to the search for the daf (total) is   *)
(* at least 0 and less than WHOLE_SHAS_DAFS.                               *)
(***************************************************************************)
C7_TotalWithinShas ==
  pc = "daf" => (0 <= total /\ total < WHOLE_SHAS_DAFS)

(***************************************************************************)
(* C8: getNumOfSpecialDays(start, end) with start <= end is the number of  *)
(* dates from start to end, both included, that are Yom Kippur or Tisha    *)
(* B'Av; no such day is counted twice.                                     *)
(***************************************************************************)
C8_CountsNoDafDays ==
  pc = "counted" => specialDays = NoDafDaysWithin(start, end)

C8_Witness ==
  /\ pc = "counted"
  /\ start < end
  /\ NoDafDay(start)
  /\ NoDafDay(end)
  /\ specialDays = 2

(***************************************************************************)
(* C9: for a date from DAF_YOMI_START_DAY on that has a daf, the search    *)
(* through BLATT_PER_MASECHTA finds a masechta: the call returns a Daf,    *)
(* never undefined.                                                        *)
(***************************************************************************)
C9_DafFound ==
  (pc = "done" /\ requested >= DAF_YOMI_START_DAY /\ ~NoDafDay(requested))
    => dafYomi.kind = "Daf"

C9_Witness ==
  /\ pc = "done"
  /\ total = WHOLE_SHAS_DAFS
  /\ dafYomi.kind = "Daf"
  /\ dafYomi.masechta = Len(BLATT_PER_MASECHTA) - 1

(***************************************************************************)
(* C10: the search for the cycle ends.  A pass is made only while          *)
(* nextCycle is before requested, it moves nextCycle forward by at least   *)
(* WHOLE_SHAS_DAFS days and sets prevCycle to the old nextCycle, so the    *)
(* distance from nextCycle to requested shrinks with every pass and there  *)
(* can be only finitely many.  No cycle starts before DAF_YOMI_START_DAY,  *)
(* and the search is left with prevCycle <= requested <= nextCycle.        *)
(***************************************************************************)
C10_CycleSearchEnds ==
  /\ [](pc \in {"cycle", "daf"}
          => (DAF_YOMI_START_DAY <= prevCycle /\ prevCycle <= nextCycle))
  /\ [](pc = "daf" => (prevCycle <= requested /\ requested <= nextCycle))
  /\ [][(pc = "cycle" /\ pc' = "cycle")
          => /\ nextCycle < requested
             /\ nextCycle' >= nextCycle + WHOLE_SHAS_DAFS
             /\ prevCycle' = nextCycle]_vars

C10_Witness ==
  /\ pc = "daf"
  /\ DAF_YOMI_START_DAY < prevCycle
  /\ prevCycle < requested
  /\ requested < nextCycle
  /\ nextCycle >= prevCycle + WHOLE_SHAS_DAFS

====
